---- MODULE Spec2Model ----
(***************************************************************************)
(* Insights platform: sliding-window rate gate (rate_limiter.py), the      *)
(* Grok analysis client (grok_client.py) and the background batch          *)
(* scheduler (batch_processor.py).                                         *)
(*                                                                         *)
(* Time is counted in ticks; one second is TicksPerSec ticks.              *)
(***************************************************************************)
EXTENDS Integers, Sequences, FiniteSets, Bags, TLC

\* ------------------------------------------------------------------ bounds
TicksPerSec == 2
MaxTime == 3
MaxClientTime == 2
NumCallers == 3
MaxGateCalls == 5
max_requests == 2
NumClients == 2
NumItems == 3
batch_size == 2
MaxTasks == 2

\* --------------------------------------------------------------- variables
VARIABLES
    clock,        \* datetime.now().timestamp(), in ticks
    requests,     \* RateLimiter.requests: retained timestamps, oldest first
    lock,         \* RateLimiter.lock: 0 when free, else the holder
    gpc,          \* position of each caller inside acquire()
    gnow,         \* the local `now` of each caller inside acquire()
    gateCalls,    \* number of acquire() calls started
    admittedAt,   \* history: per timestamp, number of calls that returned True
    rejectedAt,   \* history: per timestamp, number of calls that returned False
    retry         \* history: the latest get_retry_after() call: when it was
                  \* made (at, -1 for none), the oldest retained timestamp
                  \* it found (oldest, -1 for none), what it returned (val)
                  \* and the calls admitted until then (adm)

gateVars == <<clock, requests, lock, gpc, gnow, gateCalls, admittedAt, rejectedAt, retry>>

VARIABLES
    GROK_API_KEY,       \* whether the GROK_KEY environment variable is set
    grok_semaphore,     \* _grok_semaphore: number of free slots
    last_call_times,    \* _last_call_times
    calls,              \* the analyze_conversation calls made so far, as a bag
                        \* of records: the position of the call (pc), its
                        \* loop variable `attempt`, the time at which its
                        \* asyncio.sleep is due (cwake), the failure class of
                        \* its last failed attempt (cfail), how it ended
                        \* (cres) and, as history, the number of external
                        \* calls it has issued (nposts)
    postsAt,            \* history: per instant, number of external calls issued
    holders,            \* the number of calls that were already in flight, each
                        \* holding a semaphore slot, in the initial state
    script,             \* the answers the external service will give, one per
                        \* attempt of a call: <<outcome, Retry-After header>>;
                        \* <<>> when the service is free to answer anything
    analysis,           \* the content of the response under study: whether it
                        \* parses as a JSON object and, per key, <<>> when the
                        \* key is missing, else <<value>>; numbers in tenths
    returned,           \* what analyze_conversation returned for it: <<>> or
                        \* <<dict>>
    insight             \* the Insight that _process_single added to the
                        \* session for it: <<>> or <<row>>

parseVars == <<analysis, returned, insight>>

VARIABLES
    createdAt,    \* history: per timestamp t, the conversations stored by
                  \* submissions that the inbound gate admitted with timestamp t
    droppedAt     \* history: per timestamp t, the admitted submissions whose
                  \* commit failed

apiVars == <<createdAt, droppedAt>>

clientVars == <<GROK_API_KEY, grok_semaphore, last_call_times, calls, postsAt, holders,
                script, parseVars, apiVars>>

VARIABLES
    store,        \* the committed conversations table: status of each item
    insights,     \* the committed insights table: per item, the stored results
    running,      \* BatchProcessor.running
    task,         \* BatchProcessor.task: 0 for None, else the latest loop task
    stopWait,     \* the loop tasks that pending stop() calls are awaiting
    tpc,          \* position of each loop task inside _process_loop
    sess,         \* per loop task, the status attribute of the Conversation
                  \* objects loaded in its session ("none": not loaded)
    added,        \* per loop task, the Insight objects added to its session
    apc,          \* per loop task and item, position of _process_single
    aatt,         \* per loop task and item, `attempt` of its analysis
    ares,         \* per loop task and item, how its analysis ended
    ncommit,      \* history: commits attempted in the task's current cycle
    rolledBack    \* history: items whose uncommitted changes were discarded

schedVars == <<store, insights, running, task, stopWait, tpc, sess, added,
               apc, aatt, ares, ncommit, rolledBack>>

vars == <<gateVars, retry, clientVars, schedVars>>

Callers == 1..NumCallers
Items == 1..NumItems
Tasks == 1..MaxTasks
Times == 0..MaxTime

Min(a, b) == IF a < b THEN a ELSE b

RECURSIVE SumOver(_, _)
SumOver(f, S) ==
    IF S = {} THEN 0
    ELSE LET x == CHOOSE y \in S : TRUE IN f[x] + SumOver(f, S \ {x})

\* ============================================================ rate_limiter
\* RateLimiter(max_requests, time_window = 1.0)
time_window == 1 * TicksPerSec

RateLimiterInit ==
    /\ requests = <<>>
    /\ lock = 0

\* asyncio.Lock: `async with self.lock` is entered only while nobody holds it
LockNoMutex(c) == TRUE
LockFree(c) == lock = 0

\* line 29: the head of the deque is outside the window
ExpiredIncl(now, t) == now - t >= time_window
Expired(now, t) == now - t > time_window

\* lines 29-30: pop from the left while the head is expired
PurgeAll(q, now) == <<>>
RECURSIVE PurgeOld(_, _)
PurgeOld(q, now) ==
    IF q # <<>> /\ Expired(now, Head(q)) THEN PurgeOld(Tail(q), now) ELSE q

\* line 33
AtLimitOffByOne(q) == Len(q) > max_requests
AtLimit(q) == Len(q) >= max_requests

\* a caller invokes acquire() and waits for the lock
AcquireCall(c) ==
    /\ gpc[c] = "idle"
    /\ gateCalls < MaxGateCalls
    /\ gateCalls' = gateCalls + 1
    /\ gpc' = [gpc EXCEPT ![c] = "lockwait"]
    /\ UNCHANGED <<clock, requests, lock, gnow, admittedAt, rejectedAt, retry, clientVars, schedVars>>

\* lines 25-26: enter the critical section and read the clock
AcquireEnter(c) ==
    /\ gpc[c] = "lockwait"
    /\ LockFree(c)
    /\ lock' = c
    /\ gnow' = [gnow EXCEPT ![c] = clock]
    /\ gpc' = [gpc EXCEPT ![c] = "purge"]
    /\ UNCHANGED <<clock, requests, gateCalls, admittedAt, rejectedAt, retry, clientVars, schedVars>>

\* lines 28-30
AcquirePurge(c) ==
    /\ gpc[c] = "purge"
    /\ requests' = PurgeOld(requests, gnow[c])
    /\ gpc' = [gpc EXCEPT ![c] = "check"]
    /\ UNCHANGED <<clock, lock, gnow, gateCalls, admittedAt, rejectedAt, retry, clientVars, schedVars>>

\* lines 32-34: at the limit the call returns False and leaves the lock
AcquireReject(c) ==
    /\ gpc[c] = "check"
    /\ AtLimit(requests)
    /\ rejectedAt' = [rejectedAt EXCEPT ![gnow[c]] = @ + 1]
    /\ lock' = IF lock = c THEN 0 ELSE lock
    /\ gpc' = [gpc EXCEPT ![c] = "idle"]
    /\ UNCHANGED <<clock, requests, gnow, gateCalls, admittedAt, retry, clientVars, schedVars>>

\* line 33 not taken: there is room
AcquireRoom(c) ==
    /\ gpc[c] = "check"
    /\ ~AtLimit(requests)
    /\ gpc' = [gpc EXCEPT ![c] = "append"]
    /\ UNCHANGED <<clock, requests, lock, gnow, gateCalls, admittedAt, rejectedAt, retry, clientVars, schedVars>>

\* lines 36-38: append `now`, return True and leave the lock
AcquireAdmit(c) ==
    /\ gpc[c] = "append"
    /\ requests' = Append(requests, gnow[c])
    /\ admittedAt' = [admittedAt EXCEPT ![gnow[c]] = @ + 1]
    /\ lock' = IF lock = c THEN 0 ELSE lock
    /\ gpc' = [gpc EXCEPT ![c] = "idle"]
    /\ UNCHANGED <<clock, gnow, gateCalls, rejectedAt, retry, clientVars, schedVars>>

\* int(x) for x = d / n: the quotient truncated towards zero
FloorDiv(d, n) == d \div n
TruncDiv(d, n) == IF d >= 0 THEN d \div n ELSE -((-d) \div n)

\* lines 43-50: 0 on an empty deque, else max(0, int(time_window - elapsed) + 1)
\* whole seconds
RetryAfterPlain(q, now) ==
    IF q = <<>> THEN 0
    ELSE LET v == TruncDiv(time_window - (now - Head(q)), TicksPerSec) IN
         IF v > 0 THEN v ELSE 0
get_retry_after(q, now) ==
    IF q = <<>> THEN 0
    ELSE LET v == TruncDiv(time_window - (now - Head(q)), TicksPerSec) + 1 IN
         IF v > 0 THEN v ELSE 0

NoRetry == [at |-> -1, oldest |-> -1, val |-> 0, adm |-> 0]

\* lines 40-50: get_retry_after() takes the lock, reads the clock and returns
\* (nothing suspends it while it holds the lock)
GetRetryAfter ==
    /\ gateCalls < MaxGateCalls
    /\ lock = 0
    /\ gateCalls' = gateCalls + 1
    /\ retry' = [at |-> clock,
                 oldest |-> IF requests = <<>> THEN -1 ELSE Head(requests),
                 val |-> get_retry_after(requests, clock),
                 adm |-> SumOver(admittedAt, Times)]
    /\ UNCHANGED <<clock, requests, lock, gpc, gnow, admittedAt, rejectedAt, clientVars, schedVars>>

\* ============================================================= grok_client
\* line 13: asyncio.Semaphore(10)
SemaphoreSlots == 10
\* line 42: `if len(_last_call_times) >= 10`
GateLimit == 10
\* line 84
max_retries == 3
\* line 128: e.response.headers.get("Retry-After", 5)
DefaultRetryAfter == 5

\* what one external call (lines 87-88 and the parsing of lines 90-104) can
\* end in: a well-formed document, a payload json.loads rejects, HTTP 429,
\* another HTTP error status, or any other exception (network, timeout,
\* a response of the wrong shape)
Outcomes == {"ok", "malformed", "rate_limit", "http_error", "transient"}
\* Retry-After header values in seconds; NoHeader when the header is missing
NoHeader == -1
RetryAfterValues == {0, 1, NoHeader}

\* line 128
RetryAfter(h) == IF h = NoHeader THEN DefaultRetryAfter ELSE h

RECURSIVE Pow2(_)
Pow2(n) == IF n = 0 THEN 1 ELSE 2 * Pow2(n - 1)

\* lines 116 and 135: asyncio.sleep(2 ** attempt)
BackoffConstant(a) == TicksPerSec
Backoff(a) == Pow2(a) * TicksPerSec

\* line 39: calls of the last second are kept
Recent(now, t) == now - t < 1 * TicksPerSec

\* line 39
FilterRecent(q, now) == SelectSeq(q, LAMBDA t : Recent(now, t))

\* line 85: `for attempt in range(max_retries)` moves on after a `continue`
NextAttemptNotCounting429(a, o) == IF o = "rate_limit" THEN a ELSE a + 1
NextAttempt(a, o) == a + 1

\* lines 114-137: what the handlers do with a failed attempt:
\* "fallback" (return the degraded result), "raise", or "sleep" and continue
OnFailureNoFallback(a, o) ==
    CASE o = "malformed"  -> IF a < max_retries - 1 THEN "sleep" ELSE "raise"
      [] o = "rate_limit" -> "sleep"
      [] o = "http_error" -> "raise"
      [] o = "transient"  -> IF a < max_retries - 1 THEN "sleep" ELSE "raise"
OnFailureFallbackAll(a, o) ==
    CASE o = "malformed"  -> IF a < max_retries - 1 THEN "sleep" ELSE "fallback"
      [] o = "rate_limit" -> "sleep"
      [] o = "http_error" -> "raise"
      [] o = "transient"  -> IF a < max_retries - 1 THEN "sleep" ELSE "fallback"
OnFailureFallbackAtOnce(a, o) ==
    CASE o = "malformed"  -> "fallback"
      [] o = "rate_limit" -> "sleep"
      [] o = "http_error" -> "raise"
      [] o = "transient"  -> IF a < max_retries - 1 THEN "sleep" ELSE "raise"
OnFailure(a, o) ==
    CASE o = "malformed"  -> IF a < max_retries - 1 THEN "sleep" ELSE "fallback"
      [] o = "rate_limit" -> "sleep"
      [] o = "http_error" -> "raise"
      [] o = "transient"  -> IF a < max_retries - 1 THEN "sleep" ELSE "raise"

\* lines 116, 129, 135: the argument of asyncio.sleep
SleepForExponential(a, o, h) == Backoff(a)
SleepFor(a, o, h) == IF o = "rate_limit" THEN RetryAfter(h) * TicksPerSec ELSE Backoff(a)

\* the longest a call can take: max_retries waits of the default Retry-After
LastInstant == max_retries * DefaultRetryAfter * TicksPerSec
Instants == 0..LastInstant

\* the answers of a scripted service: an outcome and, with HTTP 429, the
\* Retry-After header
Responses ==
    {<<o, NoHeader>> : o \in Outcomes \ {"rate_limit"}}
        \cup {<<"rate_limit", h>> : h \in RetryAfterValues}
Scripts == [1..max_retries -> Responses]

\* the service answers the attempt of call r with outcome o and header h
Answers(r, o, h) == IF script = <<>> THEN TRUE ELSE script[r.attempt + 1] = <<o, h>>

\* a scripted service is followed for one call, from its start to its end;
\* a free service for NumClients calls, besides those in flight at the start,
\* during MaxClientTime
Horizon == IF script = <<>> THEN MaxClientTime ELSE LastInstant
MaxCalls == IF script = <<>> THEN NumClients + holders ELSE 1

\* line 34: `async with _grok_semaphore` gives the slot back when the block is
\* left, however it is left
ReleasedUnlessRaised(how) == IF how = "raised" THEN 0 ELSE 1
Released(how) == 1

\* lines 118-123: the degraded result (its reasoning text names the parse
\* error); 0.0 is written 0
FallbackResult == [sentiment_score |-> 0, clusters |-> <<"unknown">>, confidence |-> 0]

\* the dictionary a call that ended in the fallback has returned
ReturnValue(r) == CASE r.cres = "fallback" -> FallbackResult

clientRest == <<requests, lock, gpc, gnow, gateCalls, admittedAt, rejectedAt, retry, schedVars, script,
                parseVars, apiVars, holders>>

Calls == BagToSet(calls)

\* line 18: a call that has just been made
NewCall ==
    [pc |-> "sem", attempt |-> 0, cwake |-> 0, cfail |-> "none", cres |-> "running",
     nposts |-> 0]

\* call r goes on as q
Becomes(r, q) == calls' = (calls (-) SetToBag({r})) (+) SetToBag({q})

\* the call leaves analyze_conversation with result `how` after an attempt
\* of failure class o: its locals are gone
Finished(how, o) ==
    [pc |-> "done", attempt |-> 0, cwake |-> 0, cfail |-> o, cres |-> how, nposts |-> 0]

\* line 87: call r, going on as q, issues the external call of its attempt
Post(r, q) ==
    /\ Becomes(r, [q EXCEPT !.pc = "inflight", !.nposts = @ + 1])
    /\ postsAt' = [postsAt EXCEPT ![clock] = @ + 1]

\* asyncio.sleep(d) started now ends at clock + d; a sleep that ends after the
\* last instant followed does not end
WakeAt(d) == Min(clock + d, Horizon + 1)

\* lines 30-31: a call without GROK_KEY raises at once
AnalyzeNoKey ==
    /\ BagCardinality(calls) < MaxCalls
    /\ ~GROK_API_KEY
    /\ calls' = calls (+) SetToBag({Finished("raised", "none")})
    /\ UNCHANGED <<clock, clientRest, GROK_API_KEY, grok_semaphore, last_call_times, postsAt>>

\* lines 30-34: a call with the key set queues for a semaphore slot
AnalyzeCall ==
    /\ BagCardinality(calls) < MaxCalls
    /\ GROK_API_KEY
    /\ calls' = calls (+) SetToBag({NewCall})
    /\ UNCHANGED <<clock, clientRest, GROK_API_KEY, grok_semaphore, last_call_times, postsAt>>

\* lines 14, 38-39: the call times the outbound gate reads are the module's
\* own list _last_call_times
RecordedCallsWithInbound == last_call_times \o requests
RecordedCalls == last_call_times

\* line 43: the time left until the oldest retained call is one second old
WaitTime(kept, now) == 1 * TicksPerSec - (now - kept[1])

\* lines 34-87, no wait needed: take a slot, drop the old call times, record
\* this call and issue the external call of the first attempt (nothing
\* suspends the caller between line 47 and line 87)
AnalyzeEnter(r) ==
    /\ r.pc = "sem"
    /\ grok_semaphore > 0
    /\ LET kept == FilterRecent(RecordedCalls, clock) IN
         /\ ~(Len(kept) >= GateLimit /\ WaitTime(kept, clock) > 0)
         /\ last_call_times' = Append(kept, clock)
    /\ grok_semaphore' = grok_semaphore - 1
    /\ Post(r, [r EXCEPT !.attempt = 0])
    /\ UNCHANGED <<clock, clientRest, GROK_API_KEY>>

\* lines 34-45, gate saturated: take a slot, drop the old call times and
\* sleep for wait_time
AnalyzeEnterWait(r) ==
    /\ r.pc = "sem"
    /\ grok_semaphore > 0
    /\ LET kept == FilterRecent(RecordedCalls, clock) IN
         /\ Len(kept) >= GateLimit
         /\ WaitTime(kept, clock) > 0
         /\ last_call_times' = kept
         /\ Becomes(r, [r EXCEPT !.pc = "gatewait",
                                 !.cwake = WakeAt(WaitTime(kept, clock))])
    /\ grok_semaphore' = grok_semaphore - 1
    /\ UNCHANGED <<clock, clientRest, GROK_API_KEY, postsAt>>

\* lines 47-87, after the sleep of line 45: record this call and issue the
\* external call of the first attempt
AnalyzeGateWake(r) ==
    /\ r.pc = "gatewait"
    /\ clock >= r.cwake
    /\ last_call_times' = Append(last_call_times, clock)
    /\ Post(r, [r EXCEPT !.attempt = 0, !.cwake = 0])
    /\ UNCHANGED <<clock, clientRest, GROK_API_KEY, grok_semaphore>>

\* lines 88-112: a well-formed response is normalised and returned; the
\* `async with` blocks release the semaphore slot
AnalyzeReturn(r) ==
    /\ r.pc = "inflight"
    /\ Answers(r, "ok", NoHeader)
    /\ Becomes(r, Finished("ok", "none"))
    /\ grok_semaphore' = grok_semaphore + Released("ok")
    /\ UNCHANGED <<clock, clientRest, GROK_API_KEY, last_call_times, postsAt>>

\* lines 114-137: the attempt fails with outcome o (and Retry-After header
\* h): the call sleeps, or it ends and releases the semaphore slot
AnalyzeFail(r, o, h) ==
    /\ r.pc = "inflight"
    /\ o # "ok"
    /\ Answers(r, o, h)
    /\ IF OnFailure(r.attempt, o) = "sleep"
       THEN /\ Becomes(r, [r EXCEPT !.pc = "backoff", !.cfail = o,
                                    !.cwake = WakeAt(SleepFor(r.attempt, o, h))])
            /\ UNCHANGED grok_semaphore
       ELSE /\ Becomes(r, Finished(IF OnFailure(r.attempt, o) = "fallback"
                                   THEN "fallback" ELSE "raised", o))
            /\ grok_semaphore' = grok_semaphore +
                    Released(IF OnFailure(r.attempt, o) = "fallback"
                             THEN "fallback" ELSE "raised")
    /\ UNCHANGED <<clock, clientRest, GROK_API_KEY, last_call_times, postsAt>>

\* `continue` after the sleep: the external call of the next attempt (lines
\* 85-87), or, when range(max_retries) is exhausted, the end of the function
\* body (the call returns None and releases the semaphore slot)
AnalyzeContinue(r) ==
    /\ r.pc = "backoff"
    /\ clock >= r.cwake
    /\ IF NextAttempt(r.attempt, r.cfail) < max_retries
       THEN /\ Post(r, [r EXCEPT !.attempt = NextAttempt(r.attempt, r.cfail),
                                 !.cwake = 0, !.cfail = "none"])
            /\ UNCHANGED grok_semaphore
       ELSE /\ Becomes(r, Finished("none", r.cfail))
            /\ grok_semaphore' = grok_semaphore + Released("none")
            /\ UNCHANGED postsAt
    /\ UNCHANGED <<clock, clientRest, GROK_API_KEY, last_call_times>>

\* line 34, batch_processor line 34: the task running the call is cancelled
\* while the call is suspended inside the `async with` block (in a sleep or in
\* the external call): CancelledError leaves the block
AnalyzeCancel(r) ==
    /\ r.pc \in {"gatewait", "inflight", "backoff"}
    /\ Becomes(r, Finished("cancelled", "none"))
    /\ grok_semaphore' = grok_semaphore + Released("cancelled")
    /\ UNCHANGED <<clock, clientRest, GROK_API_KEY, last_call_times, postsAt>>

\* the (non-decreasing) clock of the gate
Tick ==
    /\ clock < MaxTime
    /\ clock' = clock + 1
    /\ UNCHANGED <<requests, lock, gpc, gnow, gateCalls, admittedAt, rejectedAt, retry, clientVars, schedVars>>

Sleeping(r) == r.pc \in {"gatewait", "backoff"}

\* the (non-decreasing) clock of the client advances while a call can still be
\* made or is under way; a call whose asyncio.sleep is due resumes before the
\* clock moves on. A scripted service answers at once: the clock advances
\* only while the call sleeps
ClientTick ==
    /\ clock < Horizon
    /\ BagCardinality(calls) < MaxCalls \/ \E r \in Calls : r.pc # "done"
    /\ script # <<>> => \E r \in Calls : Sleeping(r)
    /\ \A r \in Calls : Sleeping(r) => r.cwake > clock
    /\ clock' = clock + 1
    /\ UNCHANGED <<requests, lock, gpc, gnow, gateCalls, admittedAt, rejectedAt, retry, clientVars, schedVars>>

ClientIdle ==
    /\ grok_semaphore = SemaphoreSlots
    /\ calls = EmptyBag
    /\ holders = 0

GateIdle ==
    /\ RateLimiterInit
    /\ gpc = [c \in Callers |-> "idle"]
    /\ gnow = [c \in Callers |-> 0]
    /\ gateCalls = 0
    /\ admittedAt = [t \in Times |-> 0]
    /\ rejectedAt = [t \in Times |-> 0]
    /\ retry = NoRetry

\* ------------------------------------------------- the analysis as data
\* numbers are counted in tenths: 1.0 is 10
Tenth == 10

\* the values a JSON number of the response may have, and the topic lists
NumberValues == {-2 * Tenth, -Tenth, 0, 5, Tenth, 2 * Tenth}
ClusterValues == {<<>>, <<"praise">>, <<"praise", "complaint">>}

\* a key of the JSON object: missing, or present with a value
Field(V) == {<<>>} \cup {<<v>> : v \in V}

NoAnalysis ==
    [wellformed |-> FALSE, sentiment_score |-> <<>>, clusters |-> <<>>, confidence |-> <<>>]

\* the response contents: one that json.loads rejects, and the JSON objects
Analyses ==
    {NoAnalysis} \cup
    [wellformed : {TRUE}, sentiment_score : Field(NumberValues),
     clusters : Field(ClusterValues), confidence : Field(NumberValues)]

parseRest == <<gateVars, schedVars, GROK_API_KEY, grok_semaphore, last_call_times,
               calls, postsAt, holders, script, apiVars>>

\* dict.get(key, default)
Get(f, default) == IF f = <<>> THEN default ELSE f[1]

\* lines 107-112: the dict returned for a parsed object (float() of a JSON
\* number is that number)
NormalizeDefaultZero(a) ==
    [sentiment_score |-> Get(a.sentiment_score, 0),
     clusters |-> Get(a.clusters, <<>>),
     confidence |-> Get(a.confidence, 0)]
Normalize(a) ==
    [sentiment_score |-> Get(a.sentiment_score, 0),
     clusters |-> Get(a.clusters, <<>>),
     confidence |-> Get(a.confidence, 5)]

\* lines 104-124: the response content is parsed and the call returns: the
\* normalised object, or the fallback when every attempt failed to parse
AnalyzeParse ==
    /\ returned = <<>>
    /\ returned' = <<IF analysis.wellformed THEN Normalize(analysis) ELSE FallbackResult>>
    /\ UNCHANGED <<parseRest, analysis, insight>>

\* batch_processor lines 86-100: the Insight is built from the returned dict
\* and added to the session
AddInsight ==
    /\ returned # <<>>
    /\ insight = <<>>
    /\ insight' = <<[sentiment_score |-> returned[1].sentiment_score,
                    clusters |-> returned[1].clusters,
                    confidence |-> returned[1].confidence]>>
    /\ UNCHANGED <<parseRest, analysis, returned>>

ParseIdle ==
    /\ analysis = NoAnalysis
    /\ returned = <<>>
    /\ insight = <<>>

\* ========================================================= batch_processor
Terminal == {"completed", "failed"}

NoItems == [i \in Items |-> "none"]
ZeroItems == [i \in Items |-> 0]

\* the conversations loaded in the session of loop task t
Batch(t) == {i \in Items : sess[t][i] # "none"}

\* a loop task that exists, has not finished and has not been cancelled
Live(t) == tpc[t] \notin {"none", "cancelled", "done"}

schedRest == <<gateVars, clientVars>>

\* lines 23-24: start() returns at once while the processor is running
StartBlockedNever == FALSE
StartBlocked == running

\* lines 21-28: start()
StartCall ==
    /\ task < MaxTasks
    /\ IF StartBlocked
       THEN UNCHANGED <<running, task, tpc>>
       ELSE /\ running' = TRUE
            /\ task' = task + 1
            /\ tpc' = [tpc EXCEPT ![task + 1] = "new"]
    /\ UNCHANGED <<schedRest, store, insights, stopWait, sess, added, apc,
                   aatt, ares, ncommit, rolledBack>>

\* the session of loop task t is closed: its objects and pending changes go
CloseSessionKeepsObjects(t) ==
    /\ added' = [added EXCEPT ![t] = NoItems]
    /\ apc' = [apc EXCEPT ![t] = NoItems]
    /\ aatt' = [aatt EXCEPT ![t] = ZeroItems]
    /\ ares' = [ares EXCEPT ![t] = NoItems]
    /\ UNCHANGED sess
CloseSession(t) ==
    /\ sess' = [sess EXCEPT ![t] = NoItems]
    /\ added' = [added EXCEPT ![t] = NoItems]
    /\ apc' = [apc EXCEPT ![t] = NoItems]
    /\ aatt' = [aatt EXCEPT ![t] = ZeroItems]
    /\ ares' = [ares EXCEPT ![t] = NoItems]

\* line 33: task.cancel() stops a loop task that has not finished, at the
\* await it is suspended in
CancelsNothing(t) == FALSE
CancelsOnlyAsleep(t) == Live(t) /\ tpc[t] \in {"sleep1", "idle5", "err5"}
Cancels(t) == Live(t)

\* lines 30-36: stop() clears the flag, cancels the loop task and awaits it.
\* The cancelled task runs no further statement of its cycle: CancelledError
\* is raised at its current await and, being no Exception, passes the
\* handlers of lines 107 and 66; its session is closed without a commit.
StopCall ==
    /\ running' = FALSE
    /\ IF task # 0
       THEN /\ stopWait' = stopWait \cup {task}
            /\ IF Cancels(task)
               THEN /\ tpc' = [tpc EXCEPT ![task] = "cancelled"]
                    /\ CloseSession(task)
                    /\ rolledBack' = rolledBack \cup Batch(task)
                    /\ ncommit' = [ncommit EXCEPT ![task] = 0]
               ELSE UNCHANGED <<tpc, sess, added, apc, aatt, ares, ncommit, rolledBack>>
       ELSE UNCHANGED <<stopWait, tpc, sess, added, apc, aatt, ares, ncommit, rolledBack>>
    /\ UNCHANGED <<schedRest, store, insights, task>>

\* lines 36-39: the awaited loop task has ended and stop() returns
StopReturn(t) ==
    /\ t \in stopWait
    /\ tpc[t] = "done"
    /\ stopWait' = stopWait \ {t}
    /\ UNCHANGED <<schedRest, store, insights, running, task, tpc, sess, added,
                   apc, aatt, ares, ncommit, rolledBack>>

\* the cancelled loop task has unwound and ends
LoopCancelled(t) ==
    /\ tpc[t] = "cancelled"
    /\ tpc' = [tpc EXCEPT ![t] = "done"]
    /\ UNCHANGED <<schedRest, store, insights, running, task, stopWait, sess, added, apc,
                   aatt, ares, ncommit, rolledBack>>

\* lines 43-53: `while self.running`, a fresh session, the query is sent
LoopTop(t) ==
    /\ Live(t)
    /\ tpc[t] \in {"new", "top"}
    /\ tpc' = [tpc EXCEPT ![t] = IF running THEN "claim" ELSE "done"]
    /\ ncommit' = [ncommit EXCEPT ![t] = 0]
    /\ UNCHANGED <<schedRest, store, insights, running, task, stopWait, sess,
                   added, apc, aatt, ares, rolledBack>>

\* line 50: the rows the query selects
ClaimableNotCompleted(i) == store[i] # "completed"
Claimable(i) == store[i] = "pending"

\* lines 48-53: the result of `.where(status == "pending").limit(batch_size)`:
\* any batch_size of the pending rows, or all of them when there are fewer
ClaimSetsUnlimited ==
    LET P == {i \in Items : Claimable(i)} IN {P}
ClaimSets ==
    LET P == {i \in Items : Claimable(i)} IN
    {B \in SUBSET P : Cardinality(B) = Min(batch_size, Cardinality(P))}

\* lines 48-53, 55: the query returns rows, which are loaded into the session
ClaimLoad(t, B) ==
    /\ Live(t)
    /\ tpc[t] = "claim"
    /\ B \in ClaimSets
    /\ B # {}
    /\ sess' = [sess EXCEPT ![t] = [i \in Items |-> IF i \in B THEN store[i] ELSE "none"]]
    /\ tpc' = [tpc EXCEPT ![t] = "claimed"]
    /\ UNCHANGED <<schedRest, store, insights, running, task, stopWait, added,
                   apc, aatt, ares, ncommit, rolledBack>>

\* lines 55-58: where an empty result takes the loop: `await asyncio.sleep(5)`
\* and `continue`
OnEmptyClaimNoSleep == "top"
OnEmptyClaim == "idle5"

\* lines 55-58: no pending row: the session is left and the loop sleeps 5 s
ClaimEmpty(t) ==
    /\ Live(t)
    /\ tpc[t] = "claim"
    /\ ClaimSets = {{}}
    /\ tpc' = [tpc EXCEPT ![t] = OnEmptyClaim]
    /\ UNCHANGED <<schedRest, store, insights, running, task, stopWait, sess,
                   added, apc, aatt, ares, ncommit, rolledBack>>

\* lines 66-68: where an exception of the cycle takes the loop: the handler
\* logs it and sleeps 5 s inside the `while`
OnCycleFailureExit == "done"
OnCycleFailure == "err5"

\* lines 46-53, 66-68: the store fails the query; the handler of the loop
\* logs and sleeps 5 s
ClaimFail(t) ==
    /\ Live(t)
    /\ tpc[t] = "claim"
    /\ tpc' = [tpc EXCEPT ![t] = OnCycleFailure]
    /\ UNCHANGED <<schedRest, store, insights, running, task, stopWait, sess,
                   added, apc, aatt, ares, ncommit, rolledBack>>

\* lines 72-79: every conversation of the batch is set to processing and its
\* _process_single coroutine is created; gather starts them
Dispatch(t) ==
    /\ Live(t)
    /\ tpc[t] = "claimed"
    /\ sess' = [sess EXCEPT ![t] = [i \in Items |-> IF i \in Batch(t) THEN "processing" ELSE "none"]]
    /\ apc' = [apc EXCEPT ![t] = [i \in Items |-> IF i \in Batch(t) THEN "ready" ELSE "none"]]
    /\ tpc' = [tpc EXCEPT ![t] = "gather"]
    /\ UNCHANGED <<schedRest, store, insights, running, task, stopWait, added,
                   aatt, ares, ncommit, rolledBack>>

\* line 109: the status an item gets when its analysis has failed
FailedStatusRequeue == "pending"
FailedStatus == "failed"

\* lines 84-109: what _process_single makes of the end of the analysis: a
\* returned dict gives an Insight and completed; an exception - also the
\* TypeError of line 93 on a returned None - gives failed
HasResultAlways(res) == TRUE
HasResult(res) == res \in {"ok", "fallback"}

\* lines 86-103: an analysis that returned a dict - the normalised response
\* or the degraded fallback - sets the item completed
CompletesOnlyOk(res) == res = "ok"
Completes(res) == res \in {"ok", "fallback"}

\* lines 84-109: the analysis of item i has ended with res
Resolve(t, i, res) ==
    /\ ares' = [ares EXCEPT ![t][i] = res]
    /\ apc' = [apc EXCEPT ![t][i] = "done"]
    /\ aatt' = [aatt EXCEPT ![t][i] = 0]
    /\ sess' = [sess EXCEPT ![t][i] = IF Completes(res) THEN "completed" ELSE FailedStatus]
    /\ added' = [added EXCEPT ![t][i] =
                    IF HasResult(res) THEN (IF res = "fallback" THEN "fallback" ELSE "ok") ELSE "none"]

\* lines 84-86, grok_client lines 30-31: _process_single starts and calls
\* analyze_conversation, which raises at once without GROK_KEY
AnalysisStart(t, i) ==
    /\ Live(t)
    /\ tpc[t] = "gather"
    /\ apc[t][i] = "ready"
    /\ IF GROK_API_KEY
       THEN /\ apc' = [apc EXCEPT ![t][i] = "running"]
            /\ UNCHANGED <<sess, added, aatt, ares>>
       ELSE Resolve(t, i, "raised")
    /\ UNCHANGED <<schedRest, store, insights, running, task, stopWait, tpc,
                   ncommit, rolledBack>>

\* the item whose analyses a scripted service answers by the script; the
\* analyses of the other items are answered freely
ScriptedItem == 1

\* grok_client lines 87-88: the service answers attempt a of the analysis
\* of item i with outcome o
ItemAnswers(i, a, o) ==
    IF script = <<>> THEN TRUE
    ELSE IF i # ScriptedItem THEN TRUE
    ELSE script[a + 1][1] = o

\* grok_client lines 85-137, batch_processor lines 86-109: one attempt of
\* the analysis of item i ends in outcome o
AnalysisAttempt(t, i, o) ==
    /\ Live(t)
    /\ tpc[t] = "gather"
    /\ apc[t][i] = "running"
    /\ ItemAnswers(i, aatt[t][i], o)
    /\ IF o = "ok" THEN Resolve(t, i, "ok")
       ELSE IF OnFailure(aatt[t][i], o) = "fallback" THEN Resolve(t, i, "fallback")
       ELSE IF OnFailure(aatt[t][i], o) = "raise" THEN Resolve(t, i, "raised")
       ELSE IF NextAttempt(aatt[t][i], o) < max_retries
            THEN /\ aatt' = [aatt EXCEPT ![t][i] = NextAttempt(aatt[t][i], o)]
                 /\ UNCHANGED <<sess, added, apc, ares>>
            ELSE Resolve(t, i, "returned_none")
    /\ UNCHANGED <<schedRest, store, insights, running, task, stopWait, tpc,
                   ncommit, rolledBack>>

\* line 79: gather(*tasks, return_exceptions=True) is done when every
\* _process_single of the batch is done
GatherDoneOnFirst(t) == \E i \in Batch(t) : apc[t][i] = "done"
GatherDone(t) == \A i \in Batch(t) : apc[t][i] = "done"

\* lines 79-80: the join; the commit is sent
Join(t) ==
    /\ Live(t)
    /\ tpc[t] = "gather"
    /\ GatherDone(t)
    /\ tpc' = [tpc EXCEPT ![t] = "commit"]
    /\ UNCHANGED <<schedRest, store, insights, running, task, stopWait, sess,
                   added, apc, aatt, ares, ncommit, rolledBack>>

\* lines 61-64: where the loop goes once _process_batch has returned:
\* `await asyncio.sleep(1)`
AfterCommitNoSleep == "top"
AfterCommitExit == "done"
AfterCommit == "sleep1"

\* lines 57, 64, 68: the seconds of the sleep the loop is in
SleepSeconds(p) == CASE p = "sleep1" -> 1 [] p = "idle5" -> 5 [] p = "err5" -> 5

\* line 80, lines 61-64: the commit flushes the statuses and the added
\* Insights of the session in one transaction; the session is left and the
\* loop sleeps 1 s
CommitOk(t) ==
    /\ Live(t)
    /\ tpc[t] = "commit"
    /\ store' = [i \in Items |-> IF i \in Batch(t) THEN sess[t][i] ELSE store[i]]
    /\ insights' = [i \in Items |->
                      IF added[t][i] # "none" THEN Append(insights[i], added[t][i])
                      ELSE insights[i]]
    /\ ncommit' = [ncommit EXCEPT ![t] = @ + 1]
    /\ CloseSession(t)
    /\ tpc' = [tpc EXCEPT ![t] = AfterCommit]
    /\ UNCHANGED <<schedRest, running, task, stopWait, rolledBack>>

\* lines 47, 80: the statuses in the store after a commit that raised inside
\* `async with AsyncSessionLocal() as db`: the transaction is rolled back
AfterFailedCommitFlushed(t) ==
    [i \in Items |-> IF i \in Batch(t) THEN sess[t][i] ELSE store[i]]
AfterFailedCommit(t) == store

\* line 80, lines 66-68: the commit fails; leaving the session rolls the
\* transaction back, the handler of the loop logs and sleeps 5 s
CommitFail(t) ==
    /\ Live(t)
    /\ tpc[t] = "commit"
    /\ ncommit' = [ncommit EXCEPT ![t] = @ + 1]
    /\ rolledBack' = rolledBack \cup Batch(t)
    /\ store' = AfterFailedCommit(t)
    /\ CloseSession(t)
    /\ tpc' = [tpc EXCEPT ![t] = OnCycleFailure]
    /\ UNCHANGED <<schedRest, insights, running, task, stopWait>>

\* lines 57, 64, 68: the sleep is over and the loop goes round
SleepDone(t) ==
    /\ Live(t)
    /\ tpc[t] \in {"sleep1", "idle5", "err5"}
    /\ tpc' = [tpc EXCEPT ![t] = "top"]
    /\ UNCHANGED <<schedRest, store, insights, running, task, stopWait, sess,
                   added, apc, aatt, ares, ncommit, rolledBack>>

\* lines 16-19 and the module instance of line 113
SchedIdle ==
    /\ running = FALSE
    /\ task = 0
    /\ stopWait = {}
    /\ tpc = [t \in Tasks |-> "none"]
    /\ sess = [t \in Tasks |-> NoItems]
    /\ added = [t \in Tasks |-> NoItems]
    /\ apc = [t \in Tasks |-> NoItems]
    /\ aatt = [t \in Tasks |-> ZeroItems]
    /\ ares = [t \in Tasks |-> NoItems]
    /\ ncommit = [t \in Tasks |-> 0]
    /\ rolledBack = {}

\* the store as the submissions leave it: every item pending, no result
StoreInit ==
    /\ store = [i \in Items |-> "pending"]
    /\ insights = [i \in Items |-> <<>>]

\* ==================================================================== main
\* submit_conversation, with the gate of rate_limiter.py as inbound_limiter
\* (rate_limiter.py line 55); its acquire() and get_retry_after() calls are
\* the gate actions

\* main.py line 80: a submission goes on to create its conversation when its
\* acquire() returned True: one that the gate admitted with timestamp t has
\* not been handled yet
AdmittedOrNot(t) == admittedAt[t] + rejectedAt[t] > createdAt[t] + droppedAt[t]
Admitted(t) == admittedAt[t] > createdAt[t] + droppedAt[t]

\* main.py line 80, rate_limiter.py lines 25-38: the acquire() of a
\* submission, from taking the free lock to its return. Its body holds no
\* await, so nothing runs between its reading of the clock and its return.
SubmitAcquire ==
    /\ gateCalls < MaxGateCalls
    /\ lock = 0
    /\ gateCalls' = gateCalls + 1
    /\ LET q == PurgeOld(requests, clock) IN
         IF AtLimit(q)
         THEN /\ requests' = q
              /\ rejectedAt' = [rejectedAt EXCEPT ![clock] = @ + 1]
              /\ UNCHANGED admittedAt
         ELSE /\ requests' = Append(q, clock)
              /\ admittedAt' = [admittedAt EXCEPT ![clock] = @ + 1]
              /\ UNCHANGED rejectedAt
    /\ UNCHANGED <<clock, lock, gpc, gnow, retry, clientVars, schedVars>>

\* a row of the conversations table that does not exist yet
Absent(i) == store[i] = "absent"

apiRest == <<gateVars, GROK_API_KEY, grok_semaphore, last_call_times, calls, postsAt, holders,
             script, parseVars, insights, running, task, stopWait, tpc, sess, added,
             apc, aatt, ares, ncommit, rolledBack>>

\* main.py lines 92-110: the conversation is added with status pending and
\* committed
SubmitCreate(t, i) ==
    /\ Admitted(t)
    /\ Absent(i)
    /\ \A j \in Items : j < i => ~Absent(j)
    /\ store' = [store EXCEPT ![i] = "pending"]
    /\ createdAt' = [createdAt EXCEPT ![t] = @ + 1]
    /\ UNCHANGED <<apiRest, droppedAt>>

\* main.py lines 101, 112-121: the commit raises; the session is rolled back
\* and the submission is answered with an error
SubmitCommitFail(t) ==
    /\ Admitted(t)
    /\ droppedAt' = [droppedAt EXCEPT ![t] = @ + 1]
    /\ UNCHANGED <<apiRest, store, createdAt>>

ApiIdle ==
    /\ createdAt = [t \in Times |-> 0]
    /\ droppedAt = [t \in Times |-> 0]

\* ========================================================== specifications
\* the gate on its own: Callers call acquire() again and again
InitGate ==
    /\ clock = 0
    /\ ApiIdle
    /\ ParseIdle
    /\ GateIdle
    /\ ClientIdle
    /\ SchedIdle
    /\ StoreInit
    /\ GROK_API_KEY = TRUE
    /\ last_call_times = <<>>
    /\ postsAt = [t \in Instants |-> 0]
    /\ script = <<>>

NextGate ==
    \/ Tick
    \/ \E c \in Callers : AcquireCall(c)
    \/ \E c \in Callers : AcquireEnter(c)
    \/ \E c \in Callers : AcquirePurge(c)
    \/ \E c \in Callers : AcquireReject(c)
    \/ \E c \in Callers : AcquireRoom(c)
    \/ \E c \in Callers : AcquireAdmit(c)
    \/ GetRetryAfter

SpecGate == InitGate /\ [][NextGate]_vars

\* submissions arrive at the API while the conversations table is empty
InitSubmit ==
    /\ clock = 0
    /\ ApiIdle
    /\ ParseIdle
    /\ GateIdle
    /\ ClientIdle
    /\ SchedIdle
    /\ store = [i \in Items |-> "absent"]
    /\ insights = [i \in Items |-> <<>>]
    /\ GROK_API_KEY = TRUE
    /\ last_call_times = <<>>
    /\ postsAt = [t \in Instants |-> 0]
    /\ script = <<>>

NextSubmit ==
    \/ Tick
    \/ SubmitAcquire
    \/ GetRetryAfter
    \/ \E t \in Times, i \in Items : SubmitCreate(t, i)
    \/ \E t \in Times : SubmitCommitFail(t)

SpecSubmit == InitSubmit /\ [][NextSubmit]_vars

\* the analysis client: up to NumClients calls of analyze_conversation.
\* At the start `prior` earlier calls have just completed, each with one
\* successful external call at instant 0 - or, for the first `early` of
\* them, one tick before.
PriorCalls == {0, GateLimit - 1, GateLimit}
EarlyCalls(prior) == IF prior = GateLimit THEN {0, 1} ELSE {0}

InitClient ==
    /\ clock = 0
    /\ ApiIdle
    /\ ParseIdle
    /\ GateIdle
    /\ ClientIdle
    /\ SchedIdle
    /\ StoreInit
    /\ GROK_API_KEY \in BOOLEAN
    /\ \E prior \in PriorCalls : \E early \in EarlyCalls(prior) :
         /\ last_call_times = [i \in 1..prior |-> IF i <= early THEN -1 ELSE 0]
         /\ postsAt = [t \in Instants |-> IF t = 0 THEN prior - early ELSE 0]
    /\ script = <<>>

NextClient ==
    \/ ClientTick
    \/ AnalyzeNoKey
    \/ AnalyzeCall
    \/ \E r \in Calls : AnalyzeEnter(r)
    \/ \E r \in Calls : AnalyzeEnterWait(r)
    \/ \E r \in Calls : AnalyzeGateWake(r)
    \/ \E r \in Calls : AnalyzeReturn(r)
    \/ \E r \in Calls, o \in Outcomes \ {"rate_limit"} : AnalyzeFail(r, o, NoHeader)
    \/ \E r \in Calls, h \in RetryAfterValues : AnalyzeFail(r, "rate_limit", h)
    \/ \E r \in Calls : AnalyzeContinue(r)

SpecClient == InitClient /\ [][NextClient]_vars

\* both gates at work: submissions call acquire() and get_retry_after() of
\* the inbound gate while calls of analyze_conversation pass the outbound
\* gate, which has recorded GateLimit calls (or one fewer) at the start
InitGates ==
    /\ clock = 0
    /\ ApiIdle
    /\ ParseIdle
    /\ GateIdle
    /\ ClientIdle
    /\ SchedIdle
    /\ StoreInit
    /\ GROK_API_KEY = TRUE
    /\ \E prior \in PriorCalls \ {0} : \E early \in EarlyCalls(prior) :
         /\ last_call_times = [i \in 1..prior |-> IF i <= early THEN -1 ELSE 0]
         /\ postsAt = [t \in Instants |-> IF t = 0 THEN prior - early ELSE 0]
    /\ script = <<>>

NextGates ==
    \/ ClientTick
    \/ SubmitAcquire
    \/ GetRetryAfter
    \/ AnalyzeCall
    \/ \E r \in Calls : AnalyzeEnter(r)
    \/ \E r \in Calls : AnalyzeEnterWait(r)
    \/ \E r \in Calls : AnalyzeGateWake(r)
    \/ \E r \in Calls : AnalyzeReturn(r)

SpecGates == InitGates /\ [][NextGates]_vars

\* one call of analyze_conversation against a scripted service
InitCall ==
    /\ clock = 0
    /\ ApiIdle
    /\ ParseIdle
    /\ GateIdle
    /\ ClientIdle
    /\ SchedIdle
    /\ StoreInit
    /\ GROK_API_KEY = TRUE
    /\ last_call_times = <<>>
    /\ postsAt = [t \in Instants |-> 0]
    /\ script \in Scripts

NextCall ==
    \/ ClientTick
    \/ AnalyzeCall
    \/ \E r \in Calls : AnalyzeEnter(r)
    \/ \E r \in Calls : AnalyzeReturn(r)
    \/ \E r \in Calls, o \in Outcomes \ {"rate_limit"} : AnalyzeFail(r, o, NoHeader)
    \/ \E r \in Calls, h \in RetryAfterValues : AnalyzeFail(r, "rate_limit", h)
    \/ \E r \in Calls : AnalyzeContinue(r)

SpecCall == InitCall /\ [][NextCall]_vars

\* a call in flight in its first attempt
HolderCall == [NewCall EXCEPT !.pc = "inflight", !.nposts = 1]

\* the semaphore under load: at instant 0, SemaphoreSlots calls (or one
\* fewer) have entered and are in flight, and up to NumClients more calls are
\* made. The service answers each external call with a well-formed response
\* or an HTTP error, and a call may be cancelled.
InitSlots ==
    /\ clock = 0
    /\ ApiIdle
    /\ ParseIdle
    /\ GateIdle
    /\ SchedIdle
    /\ StoreInit
    /\ GROK_API_KEY = TRUE
    /\ script = <<>>
    /\ holders \in {SemaphoreSlots - 1, SemaphoreSlots}
    /\ calls = [r \in {HolderCall} |-> holders]
    /\ grok_semaphore = SemaphoreSlots - holders
    /\ last_call_times = [i \in 1..holders |-> 0]
    /\ postsAt = [t \in Instants |-> IF t = 0 THEN holders ELSE 0]

NextSlots ==
    \/ ClientTick
    \/ AnalyzeCall
    \/ \E r \in Calls : AnalyzeEnter(r)
    \/ \E r \in Calls : AnalyzeEnterWait(r)
    \/ \E r \in Calls : AnalyzeGateWake(r)
    \/ \E r \in Calls : AnalyzeReturn(r)
    \/ \E r \in Calls : AnalyzeFail(r, "http_error", NoHeader)
    \/ \E r \in Calls : AnalyzeCancel(r)

SpecSlots == InitSlots /\ [][NextSlots]_vars

\* every external call ends (the client has a timeout of 30 s, line 83), a
\* due sleep ends, time passes, and a caller for whom the semaphore has a free
\* slot gets it
SpecSlotsLive ==
    /\ SpecSlots
    /\ WF_vars(ClientTick)
    /\ WF_vars(\E r \in Calls : AnalyzeEnter(r) \/ AnalyzeEnterWait(r))
    /\ WF_vars(\E r \in Calls : AnalyzeGateWake(r))
    /\ WF_vars(\E r \in Calls : AnalyzeReturn(r) \/ AnalyzeFail(r, "http_error", NoHeader))

\* one response content, from the parse to the Insight handed to the store
InitParse ==
    /\ clock = 0
    /\ ApiIdle
    /\ GateIdle
    /\ ClientIdle
    /\ SchedIdle
    /\ StoreInit
    /\ GROK_API_KEY = TRUE
    /\ last_call_times = <<>>
    /\ postsAt = [t \in Instants |-> 0]
    /\ script = <<>>
    /\ analysis \in Analyses
    /\ returned = <<>>
    /\ insight = <<>>

NextParse ==
    \/ AnalyzeParse
    \/ AddInsight

SpecParse == InitParse /\ [][NextParse]_vars

\* the scheduler: start() and stop() are called in any order while the loop
\* tasks run; the analyses are followed attempt by attempt, without time
InitSched ==
    /\ clock = 0
    /\ ApiIdle
    /\ ParseIdle
    /\ GateIdle
    /\ ClientIdle
    /\ SchedIdle
    /\ StoreInit
    /\ GROK_API_KEY \in BOOLEAN
    /\ last_call_times = <<>>
    /\ postsAt = [t \in Instants |-> 0]
    /\ script = <<>>

NextSched ==
    \/ StartCall
    \/ StopCall
    \/ \E t \in Tasks : StopReturn(t)
    \/ \E t \in Tasks : LoopCancelled(t)
    \/ \E t \in Tasks : LoopTop(t)
    \/ \E t \in Tasks, B \in ClaimSets : ClaimLoad(t, B)
    \/ \E t \in Tasks : ClaimEmpty(t)
    \/ \E t \in Tasks : ClaimFail(t)
    \/ \E t \in Tasks : Dispatch(t)
    \/ \E t \in Tasks, i \in Items : AnalysisStart(t, i)
    \/ \E t \in Tasks, i \in Items, o \in Outcomes : AnalysisAttempt(t, i, o)
    \/ \E t \in Tasks : Join(t)
    \/ \E t \in Tasks : CommitOk(t)
    \/ \E t \in Tasks : CommitFail(t)
    \/ \E t \in Tasks : SleepDone(t)

SpecSched == InitSched /\ [][NextSched]_vars

\* the scheduler with the key set, where the service answers every analysis
\* of one item in the same way: always malformed, or always with a transient
\* failure
ItemScripts == {[k \in 1..max_retries |-> <<o, NoHeader>>] : o \in {"malformed", "transient"}}

InitItem ==
    /\ clock = 0
    /\ ApiIdle
    /\ ParseIdle
    /\ GateIdle
    /\ ClientIdle
    /\ SchedIdle
    /\ StoreInit
    /\ GROK_API_KEY = TRUE
    /\ last_call_times = <<>>
    /\ postsAt = [t \in Instants |-> 0]
    /\ script \in ItemScripts

SpecItem == InitItem /\ [][NextSched]_vars

\* the scheduler is started and never stopped; the store may fail at a query
\* or at a commit
NextRun ==
    \/ StartCall
    \/ \E t \in Tasks : LoopTop(t)
    \/ \E t \in Tasks, B \in ClaimSets : ClaimLoad(t, B)
    \/ \E t \in Tasks : ClaimEmpty(t)
    \/ \E t \in Tasks : ClaimFail(t)
    \/ \E t \in Tasks : Dispatch(t)
    \/ \E t \in Tasks, i \in Items : AnalysisStart(t, i)
    \/ \E t \in Tasks, i \in Items, o \in Outcomes : AnalysisAttempt(t, i, o)
    \/ \E t \in Tasks : Join(t)
    \/ \E t \in Tasks : CommitOk(t)
    \/ \E t \in Tasks : CommitFail(t)
    \/ \E t \in Tasks : SleepDone(t)

SpecRun == InitSched /\ [][NextRun]_vars

\* start() is called, and the event loop keeps running what is ready: a
\* query and a commit come back (with rows, or with a failure), every
\* external call responds or times out (grok_client line 83), every sleep
\* ends
SpecRunLive == SpecRun /\ WF_vars(NextRun)

\* the event loop runs a cancelled loop task to its end and resumes a stop()
\* whose awaited task has ended
SpecSchedLive ==
    /\ SpecSched
    /\ WF_vars(\E t \in Tasks : LoopCancelled(t))
    /\ \A t \in Tasks : WF_vars(StopReturn(t))

\* ------------------------------------------------------------ claims: gate

\* C1: under a non-decreasing clock, the calls to acquire() that returned
\* True with timestamps inside any interval [a, a + time_window] number at
\* most max_requests.
C1_SlidingWindowBound ==
    \A a \in Times :
        SumOver(admittedAt, {t \in Times : a <= t /\ t <= a + time_window}) <= max_requests

\* C1 witness: the gate has admitted max_requests calls at one instant,
\* rejected a further one, and admitted again once the window had passed.
C1_Witness ==
    \E t \in Times, u \in Times :
        /\ admittedAt[t] = max_requests
        /\ rejectedAt[t] > 0
        /\ u > t + time_window
        /\ admittedAt[u] > 0

\* C2: of the calls made at one instant t on a gate that is empty at t, once
\* all of them have returned, exactly min(N, max_requests) returned True and
\* the others False.
C2_ConcurrentBurst ==
    \A t \in Times :
        ( /\ \A c \in Callers : gpc[c] \in {"purge", "check", "append"} => gnow[c] # t
          /\ SumOver(admittedAt, {u \in Times : u < t /\ t - u <= time_window}) = 0 )
        => admittedAt[t] = Min(admittedAt[t] + rejectedAt[t], max_requests)

\* C2 witness: more callers than max_requests have called at the same instant
\* on the empty gate and all have returned.
C2_Witness ==
    /\ clock = 0
    /\ \A c \in Callers : gpc[c] = "idle"
    /\ admittedAt[0] + rejectedAt[0] > max_requests
    /\ admittedAt[0] = max_requests
    /\ rejectedAt[0] = admittedAt[0] + rejectedAt[0] - max_requests

\* C15: get_retry_after() never returns a negative value, and when it has
\* returned r > 0, an acquire() made r seconds later (or later still), with
\* no call admitted in between, finds room and returns True.
C15_RetryAfterSuffices ==
    /\ retry.val >= 0
    /\ \A c \in Callers :
         ( /\ gpc[c] = "check"
           /\ retry.at >= 0
           /\ retry.val > 0
           /\ gnow[c] >= retry.at + retry.val * TicksPerSec
           /\ SumOver(admittedAt, Times) = retry.adm )
         => Len(requests) < max_requests

\* C15 witness: get_retry_after() returned r > 0 on a gate that rejected a
\* call at that instant, and the next call admitted was made r seconds later.
C15_Witness ==
    /\ retry.at >= 0
    /\ retry.val > 0
    /\ rejectedAt[retry.at] > 0
    /\ retry.at + retry.val * TicksPerSec \in Times
    /\ admittedAt[retry.at + retry.val * TicksPerSec] > 0
    /\ SumOver(admittedAt, Times) = retry.adm + 1

\* the time left, in ticks, until the oldest timestamp found by the latest
\* get_retry_after() call is time_window old
RetryRemaining == 1 * TicksPerSec - (retry.at - retry.oldest)

\* ceil(d / n)
CeilDiv(d, n) == -((-d) \div n)

\* C16 (as stated): get_retry_after() returns
\* max(0, ceil(time_window - (now - oldest retained timestamp))), and 0 when
\* no timestamp is retained.
C16_RetryAfterIsCeil ==
    retry.at >= 0 =>
        retry.val = IF retry.oldest = -1 THEN 0
                    ELSE IF CeilDiv(RetryRemaining, TicksPerSec) > 0
                         THEN CeilDiv(RetryRemaining, TicksPerSec) ELSE 0

\* C16 (amended): get_retry_after() returns 0 when no timestamp is retained;
\* otherwise, x being time_window - (now - oldest retained timestamp), it
\* returns the smallest whole number of seconds greater than x when x >= 0
\* (ceil(x) for a fractional x, x + 1 for a whole x), 1 when -1 < x < 0 and
\* 0 when x <= -1.
C16_RetryAfterIsTruncPlusOne ==
    retry.at >= 0 =>
        IF retry.oldest = -1 THEN retry.val = 0
        ELSE /\ RetryRemaining >= 0 =>
                  /\ retry.val * TicksPerSec > RetryRemaining
                  /\ (retry.val - 1) * TicksPerSec <= RetryRemaining
             /\ (RetryRemaining < 0 /\ RetryRemaining > -TicksPerSec) => retry.val = 1
             /\ RetryRemaining <= -TicksPerSec => retry.val = 0

\* C16 witness: get_retry_after() was called at the very instant of the
\* oldest retained timestamp (x = time_window, a whole number) and returned
\* one more than ceil(x); another reachable case is an expired oldest entry.
C16_Witness ==
    /\ retry.at >= 0
    /\ retry.oldest = retry.at
    /\ retry.val = 2

\* C17: a step in which an acquire() returns False leaves the retained
\* timestamps as they are; a step in which one returns True appends exactly
\* one timestamp, the time the call has read; every other change of the
\* retained timestamps is made by the call inside acquire() and removes,
\* from the old end, only timestamps older than time_window at that time.
C17_AcquireFrame ==
    [][ /\ rejectedAt' # rejectedAt => requests' = requests
        /\ admittedAt' # admittedAt =>
              \E c \in Callers :
                  /\ lock = c
                  /\ requests' = Append(requests, gnow[c])
                  /\ admittedAt'[gnow[c]] = admittedAt[gnow[c]] + 1
        /\ (requests' # requests /\ admittedAt' = admittedAt) =>
              \E c \in Callers, k \in 1..Len(requests) :
                  /\ lock = c
                  /\ requests' = SubSeq(requests, k + 1, Len(requests))
                  /\ \A j \in 1..k : gnow[c] - requests[j] > 1 * TicksPerSec
      ]_vars

\* C17 witness: a call was rejected at t, and a later call at u has removed
\* the expired timestamps of t and appended its own.
C17_Witness ==
    \E t \in Times, u \in Times :
        /\ t < u
        /\ admittedAt[t] > 0
        /\ rejectedAt[t] > 0
        /\ requests # <<>>
        /\ \A j \in 1..Len(requests) : requests[j] = u

\* C32: the retained timestamps are in non-decreasing order and number at
\* most max_requests; and when a call decides on admission (after its purge)
\* no retained timestamp is older than time_window at the call's `now`.
C32_RetainedInvariant ==
    /\ \A k \in 1..(Len(requests) - 1) : requests[k] <= requests[k + 1]
    /\ Len(requests) <= max_requests
    /\ \A c \in Callers :
         gpc[c] \in {"check", "append"} =>
            \A k \in 1..Len(requests) : gnow[c] - requests[k] <= time_window

\* C32 witness: a call is at its capacity check on a full gate whose oldest
\* timestamp is exactly time_window old, an older one having been purged.
C32_Witness ==
    \E c \in Callers :
        /\ gpc[c] = "check"
        /\ Len(requests) = max_requests
        /\ requests[1] < requests[Len(requests)]
        /\ gnow[c] - requests[1] = time_window
        /\ SumOver(admittedAt, Times) > Len(requests)

\* ---------------------------------------------------------- claims: client

\* C3: at most 10 external calls are issued within any interval of one
\* second [a, a + 1s).
C3_OutboundRate ==
    \A a \in Times :
        SumOver(postsAt, {t \in Times : a <= t /\ t < a + 1 * TicksPerSec}) <= 10

\* C10: one analyze_conversation call issues at most 3 external calls,
\* whatever the outcomes of its attempts.
C10_AtMostThreeCalls ==
    \A r \in Calls : r.nposts <= 3

\* C10 witness: a call has issued its third external call, in its last attempt.
C10_Witness ==
    \E r \in Calls : r.pc = "inflight" /\ r.nposts = 3 /\ r.attempt = 2
\* the external calls issued so far (in SpecCall: by the one call followed)
TotalPosts == SumOver(postsAt, Instants)

\* C11: a call of analyze_conversation that has propagated a failure has made
\* all 3 attempts, whatever the failure class of the external call.
C11_RaisedOnlyAfterThreeAttempts ==
    \A r \in Calls :
        (r.pc = "done" /\ r.cres = "raised") => TotalPosts = max_retries


\* every attempt of the scripted call is answered with outcome o
AllAnswers(o) == \A k \in 1..max_retries : script[k][1] = o

\* C12: a call whose attempts are all answered with a malformed payload ends
\* after the third one, returns the degraded result sentiment_score 0.0,
\* clusters ["unknown"], confidence 0.0 and propagates no error.
C12_MalformedGivesFallback ==
    \A r \in Calls :
        (AllAnswers("malformed") /\ r.pc = "done") =>
            /\ r.cres = "fallback"
            /\ TotalPosts = max_retries
            /\ ReturnValue(r).sentiment_score = 0
            /\ ReturnValue(r).clusters = <<"unknown">>
            /\ ReturnValue(r).confidence = 0

\* C12 witness: the call has ended after three malformed answers, with the
\* fallback.
C12_Witness ==
    /\ AllAnswers("malformed")
    /\ \E r \in Calls : r.pc = "done" /\ r.cres = "fallback"
    /\ TotalPosts = max_retries

\* C13: a call whose attempts all fail with a network/timeout failure ends
\* only after the third attempt, and it ends by propagating the failure, not
\* with a fallback result.
C13_TransientPropagates ==
    \A r \in Calls :
        (AllAnswers("transient") /\ r.pc = "done") =>
            /\ r.cres = "raised"
            /\ r.cfail = "transient"
            /\ TotalPosts = max_retries

\* C13 witness: the call has propagated the failure of its third attempt.
C13_Witness ==
    /\ AllAnswers("transient")
    /\ \E r \in Calls : r.pc = "done" /\ r.cres = "raised"
    /\ TotalPosts = max_retries

\* the instants of the last external call and of the one before it
LastPost == CHOOSE t \in Instants : postsAt[t] > 0 /\ \A u \in Instants : u > t => postsAt[u] = 0
PrevPost ==
    IF postsAt[LastPost] > 1 THEN LastPost
    ELSE CHOOSE t \in Instants :
            /\ t < LastPost
            /\ postsAt[t] > 0
            /\ \A u \in Instants : (u > t /\ u < LastPost) => postsAt[u] = 0

\* C14: the attempt that follows an HTTP 429 is issued w seconds after it,
\* w being the Retry-After header of the 429 and 5 s without the header -
\* not the exponential delay of that attempt index - and it is the next of
\* the 3 attempts.
C14_RateLimitWait ==
    \A r \in Calls :
        (r.pc = "inflight" /\ r.attempt >= 1 /\ script[r.attempt][1] = "rate_limit") =>
            /\ LastPost = clock
            /\ clock - PrevPost =
                 (IF script[r.attempt][2] = NoHeader THEN 5 ELSE script[r.attempt][2])
                     * TicksPerSec
            /\ r.nposts = r.attempt + 1

\* C14 witness: the second attempt is under way, 5 s after a 429 without
\* Retry-After, where the exponential delay would have been 1 s.
C14_Witness ==
    \E r \in Calls :
        /\ r.pc = "inflight"
        /\ r.attempt = 1
        /\ script[1] = <<"rate_limit", NoHeader>>
        /\ clock = 5 * TicksPerSec

\* the recorded timestamps that are younger than one second now
RecentCalls == Len(FilterRecent(last_call_times, clock))

\* C25: a timestamp is recorded only when fewer than 10 recorded timestamps
\* are younger than 1 s, so that at no moment more than 10 recorded
\* timestamps are younger than 1 s.
C25_GateWindowBound ==
    RecentCalls <= GateLimit

\* the calls that are inside the `async with _grok_semaphore` block
HoldsSlot(r) == r.pc \in {"gatewait", "inflight", "backoff"}
Holding == SumOver([r \in Calls |-> IF HoldsSlot(r) THEN CopiesIn(r, calls) ELSE 0], Calls)

\* C29: at most 10 calls hold a slot; the free slots and the calls holding
\* one always add up to 10 (a call that has issued its external call and not
\* ended holds one; a call that has ended, with a result, a propagated
\* failure or by cancellation, holds none); and it is always the case that
\* eventually no call is waiting for a slot.
C29_SlotsNeverLeak ==
    /\ [](/\ Holding <= SemaphoreSlots
          /\ grok_semaphore >= 0
          /\ grok_semaphore + Holding = SemaphoreSlots)
    /\ [][postsAt' # postsAt => (\E r \in BagToSet(calls') : r.pc = "inflight" /\ HoldsSlot(r))
                                   /\ grok_semaphore' < SemaphoreSlots]_vars
    /\ []<>(\A r \in Calls : r.pc # "sem")

\* C29 witness: all 10 slots were taken while a further call waited for one;
\* holders have since ended with a result, with a propagated failure and by
\* cancellation, and the call that waited now holds a slot.
C29_Witness ==
    /\ holders = SemaphoreSlots
    /\ \E r \in Calls : r.pc = "done" /\ r.cres = "ok"
    /\ \E r \in Calls : r.pc = "done" /\ r.cres = "raised"
    /\ \E r \in Calls : r.pc = "done" /\ r.cres = "cancelled"
    /\ \E r \in Calls : r.pc = "gatewait"
    /\ Holding = SemaphoreSlots - 2

\* the failure classes that back off exponentially
ParseOrTransient == {"malformed", "transient"}

\* the attempt under way follows, after 2^(k-1) seconds, a k-th attempt that
\* failed to parse or failed transiently
BackoffBeforeAttempt(r) ==
    (r.pc = "inflight" /\ r.attempt >= 1 /\ script[r.attempt][1] \in ParseOrTransient) =>
        /\ LastPost = clock
        /\ clock - PrevPost = Pow2(r.attempt - 1) * TicksPerSec

\* the call has ended with the parse or transient failure of its third
\* attempt
EndedOnThirdFailure(r) ==
    /\ r.pc = "done"
    /\ r.cfail \in ParseOrTransient
    /\ r.cres \in {"fallback", "raised"}
    /\ TotalPosts = max_retries

Status(i) ==
    IF \E t \in Tasks : Live(t) /\ sess[t][i] # "none"
    THEN sess[CHOOSE t \in Tasks : Live(t) /\ sess[t][i] # "none"][i]
    ELSE store[i]

AllowedMoves ==
    {<<"pending", "processing">>, <<"processing", "completed">>, <<"processing", "failed">>}

\* the uncommitted changes of item i are dropped in this step: its session is
\* closed by a failed commit or by the cancellation of stop(), the store row
\* stays as it is
Discarded(i) ==
    /\ store'[i] = store[i]
    /\ \E t \in Tasks :
         /\ sess[t][i] # "none"
         /\ sess'[t][i] = "none"
         /\ tpc'[t] \in {"err5", "cancelled"}

C5_OneBatchInFlight ==
    /\ [](\A t \in Tasks, u \in Tasks : t # u => Batch(t) \cap Batch(u) = {})
    /\ [][\A t \in Tasks :
            (Batch(t)' # Batch(t) /\ Batch(t)' # {}) =>
                /\ Batch(t) = {}
                /\ tpc[t] = "claim"
                /\ \A u \in Tasks : Batch(u) = {}]_vars

\* C5 witness: after stop() and start() the second loop task has in flight
\* an item that was in the cancelled batch of the first.
C5_Witness ==
    /\ tpc[1] = "done"
    /\ \E i \in rolledBack : sess[2][i] = "processing"

\* C6: when the batch is about to be committed, exactly the items whose
\* analysis propagated a failure are failed; every other item is completed
\* and has an Analysis Result.
C6_FailedExactlyPropagated ==
    \A t \in Tasks :
        tpc[t] = "commit" =>
            \A i \in Batch(t) :
                IF ares[t][i] = "raised"
                THEN sess[t][i] = "failed" /\ added[t][i] = "none"
                ELSE sess[t][i] = "completed" /\ added[t][i] # "none"

\* C7: the store is written only by the commit of a batch, which writes the
\* whole batch at once after every item of it has resolved to completed or
\* failed, and a cycle that found a batch commits exactly once.
C7_CommitOnceAfterJoin ==
    /\ [][(store' # store \/ insights' # insights) =>
            \E t \in Tasks :
                /\ tpc[t] = "commit"
                /\ ncommit[t] = 0
                /\ ncommit'[t] = 1
                /\ \A i \in Batch(t) :
                      /\ apc[t][i] = "done"
                      /\ sess[t][i] \in Terminal
                      /\ store'[i] = sess[t][i]
                /\ \A i \in Items \ Batch(t) :
                      store'[i] = store[i] /\ insights'[i] = insights[i]]_vars
    /\ [](\A t \in Tasks :
            /\ ncommit[t] <= 1
            /\ tpc[t] = "sleep1" => ncommit[t] = 1
            /\ tpc[t] \in {"claimed", "gather", "commit", "idle5"} => ncommit[t] = 0)

\* C7 witness: a cycle has committed a batch with a completed and a failed
\* item and is in its 1 s sleep.
C7_Witness ==
    \E t \in Tasks, i \in Items, j \in Items :
        /\ tpc[t] = "sleep1"
        /\ ncommit[t] = 1
        /\ store[i] = "completed"
        /\ store[j] = "failed"

\* C8: in the store an item has exactly one Analysis Result when its status
\* is completed and none otherwise.
C8_OneResultIffCompleted ==
    \A i \in Items : Len(insights[i]) = IF store[i] = "completed" THEN 1 ELSE 0

\* C8 witness: an item of a discarded batch has been processed again and is
\* stored completed with one result, next to a failed item without result.
C8_Witness ==
    \E i \in rolledBack, j \in Items :
        /\ store[i] = "completed"
        /\ Len(insights[i]) = 1
        /\ store[j] = "failed"
        /\ Len(insights[j]) = 0

\* C9: only items that are pending in the store are ever loaded by a claim;
\* an item stored as failed or completed is never claimed again, no analysis
\* is started for it and its status and result never change.
C9_TerminalNeverReclaimed ==
    /\ [](\A t \in Tasks, i \in Items :
            /\ sess[t][i] # "none" => store[i] = "pending"
            /\ apc[t][i] \in {"ready", "running"} => Status(i) = "processing")
    /\ [][\A i \in Items :
            store[i] \in Terminal =>
                /\ store'[i] = store[i]
                /\ insights'[i] = insights[i]
                /\ \A t \in Tasks : sess'[t][i] = "none" /\ apc'[t][i] = "none"]_vars

\* C9 witness: a batch is being analysed while another item is stored as
\* failed and is not part of it.
C9_Witness ==
    \E t \in Tasks, i \in Items, j \in Items :
        /\ tpc[t] = "gather"
        /\ apc[t][i] = "running"
        /\ store[j] = "failed"
        /\ sess[t][j] = "none"

\* C18: a failed claim or a failed commit takes the loop to its 5 s wait,
\* from which it goes round to the next cycle; a loop task stops running
\* only in a step of stop().
C18_LoopSurvivesFailures ==
    [][\A t \in Tasks :
          /\ (tpc[t] \in {"claim", "commit"} /\ tpc'[t] # tpc[t]) =>
                tpc'[t] \in {"claimed", "idle5", "sleep1", "err5", "cancelled"}
          /\ (tpc[t] = "err5" /\ tpc'[t] # "err5") => tpc'[t] \in {"top", "cancelled"}
          /\ (tpc[t] = "top" /\ tpc'[t] # "top") => tpc'[t] \in {"claim", "cancelled"}
          /\ (Live(t) /\ ~Live(t)') => (running /\ ~running')]_vars

\* C18 witness: the first loop task, never stopped, is processing a batch
\* after the commit of an earlier cycle has failed.
C18_Witness ==
    /\ task = 1
    /\ running
    /\ tpc[1] = "gather"
    /\ rolledBack # {}

\* C19: a loop task that has a batch in flight goes on running until the
\* batch is resolved and committed, also when stop() is called.
C19_BatchDrainedOnStop ==
    [][\A t \in Tasks : (Live(t) /\ Batch(t) # {}) => Live(t)']_vars

\* the loop task is in one of its sleeps
InSleep(t) == tpc[t] \in {"sleep1", "idle5", "err5"}

\* C20: a stop() called while the loop sleeps ends the sleep in that step;
\* stop() returns only when the loop task has ended; a loop task that was
\* cancelled or has ended takes no further step of a cycle; and every
\* stop() that waits for a loop task eventually returns (no stop() waits
\* for its task from some point on for ever).
C20_StopCancelsSleep ==
    /\ [][\A t \in Tasks :
            /\ (t = task /\ InSleep(t) /\ running /\ ~running') => tpc'[t] = "cancelled"
            /\ (t \in stopWait /\ t \notin stopWait') => tpc[t] = "done"
            /\ tpc[t] = "cancelled" => tpc'[t] \in {"cancelled", "done"}
            /\ tpc[t] = "done" => tpc'[t] = "done"
            /\ tpc[t] \in {"cancelled", "done"} => Batch(t)' = {}]_vars
    /\ \A t \in Tasks : []<>(t \notin stopWait)

\* C20 witness: stop() was called while the loop slept after a committed
\* batch, and it has returned.
C20_Witness ==
    /\ tpc[1] = "done"
    /\ stopWait = {}
    /\ ~running
    /\ task = 1
    /\ \E i \in Items : store[i] \in Terminal
    /\ rolledBack = {}

\* the step of loop task t in which its query returns no row
EmptyClaimStep(t) ==
    /\ tpc[t] = "claim"
    /\ \A i \in Items : store[i] # "pending"
    /\ tpc'[t] \notin {"claim", "err5", "cancelled"}

\* C21: a claim that finds no pending item takes the loop to the 5 s idle
\* sleep and changes neither the store nor the session (no item loaded, no
\* status set, no analysis started, no commit); the idle sleep is left only
\* for the top of the loop (or by cancellation), and a claim is made only
\* from the top of the loop.
C21_EmptyClaimIdles ==
    [][\A t \in Tasks :
          /\ EmptyClaimStep(t) =>
                /\ tpc'[t] = "idle5"
                /\ store' = store /\ insights' = insights
                /\ sess' = sess /\ apc' = apc /\ added' = added
                /\ ncommit' = ncommit
                /\ Batch(t)' = {}
          /\ (tpc[t] = "idle5" /\ tpc'[t] # "idle5") => tpc'[t] \in {"top", "cancelled"}
          /\ (tpc[t] = "idle5" /\ tpc'[t] = "idle5") =>
                (Batch(t)' = {} /\ ncommit'[t] = 0)
          /\ (tpc[t] # "claim" /\ tpc'[t] = "claim") => tpc[t] \in {"new", "top"}
          /\ (tpc[t] # "top" /\ tpc'[t] = "top") => InSleep(t)]_vars

\* C21 witness: the loop is in its idle sleep, every item being terminal.
C21_Witness ==
    /\ tpc[1] = "idle5"
    /\ running
    /\ \A i \in Items : store[i] \in Terminal

\* C22: the Insight handed to the store has its sentiment score within
\* [-1.0, 1.0], its confidence within [0.0, 1.0] and at least one topic
\* label.
C22_ResultBounded ==
    insight # <<>> =>
        /\ insight[1].sentiment_score >= -Tenth /\ insight[1].sentiment_score <= Tenth
        /\ insight[1].confidence >= 0 /\ insight[1].confidence <= Tenth
        /\ insight[1].clusters # <<>>

\* the conversations that exist in the store
Stored == {i \in Items : store[i] # "absent"}

\* C23: every conversation in the store was created by a submission that
\* the inbound gate admitted; the conversations created by submissions
\* admitted with timestamps in any interval [a, a + time_window] number at
\* most max_requests; and the step in which acquire() returns False, like
\* the get_retry_after() call that follows it, leaves the store as it is.
C23_OnlyAdmittedCreate ==
    /\ [](/\ \A t \in Times : createdAt[t] + droppedAt[t] <= admittedAt[t]
          /\ Cardinality(Stored) = SumOver(createdAt, Times)
          /\ \A a \in Times :
               SumOver(createdAt, {t \in Times : a <= t /\ t <= a + time_window})
                   <= max_requests)
    /\ [][(SumOver(rejectedAt, Times)' > SumOver(rejectedAt, Times) \/ retry' # retry)
             => (store' = store /\ createdAt' = createdAt)]_vars

\* C23 witness: at one instant max_requests submissions were admitted and
\* stored, a further one was rejected and was given its retry delay, and a
\* later submission was stored after the window had passed.
C23_Witness ==
    \E t \in Times, u \in Times :
        /\ createdAt[t] = max_requests
        /\ rejectedAt[t] > 0
        /\ retry.at >= t
        /\ u > t + time_window
        /\ createdAt[u] > 0
        /\ Cardinality(Stored) = max_requests + 1

\* the analyses of the cycle of loop task t that have started / are in flight
Started(t) == {i \in Items : apc[t][i] \in {"running", "done"}}
InFlight(t) == {i \in Items : apc[t][i] = "running"}

\* C26: once the analysis of any item of a batch has started, every item of
\* the batch has been set to processing (and has since only been resolved);
\* and at most batch_size analyses of a cycle are in flight at once.
C26_FlipBeforeAnalysis ==
    \A t \in Tasks :
        /\ Started(t) # {} =>
              \A j \in Batch(t) : sess[t][j] \in {"processing", "completed", "failed"}
        /\ \A j \in Batch(t) : apc[t][j] \in {"ready", "running"} => sess[t][j] = "processing"
        /\ Started(t) \subseteq Batch(t)
        /\ Cardinality(Batch(t)) <= batch_size
        /\ Cardinality(InFlight(t)) <= batch_size

\* C26 witness: batch_size analyses of one cycle are in flight, one of them
\* just started while the others were already running, every item of the
\* batch being processing.
C26_Witness ==
    \E t \in Tasks :
        /\ Cardinality(InFlight(t)) = batch_size
        /\ \A j \in Batch(t) : sess[t][j] = "processing"
        /\ \E i \in Items : store[i] = "pending" /\ i \notin Batch(t)

\* loop task t begins a sleep in this step
SleepBegins(t) == tpc'[t] \in {"sleep1", "idle5", "err5"} /\ tpc'[t] # tpc[t]

\* C27: the cycle ends in exactly one sleep: of 1 s when its batch has been
\* committed, of 5 s when the claim was empty, of 5 s when the claim or the
\* commit failed. A sleep is followed by the top of the loop (or cut by
\* stop()), never by another sleep, and the top of the loop is reached only
\* from a sleep.
C27_OneSleepPerCycle ==
    [][\A t \in Tasks :
          /\ (tpc[t] = "commit" /\ store' # store) =>
                (SleepBegins(t) /\ SleepSeconds(tpc'[t]) = 1 /\ ncommit'[t] = 1)
          /\ EmptyClaimStep(t) => (SleepBegins(t) /\ SleepSeconds(tpc'[t]) = 5)
          /\ (tpc[t] \in {"claim", "commit"} /\ tpc'[t] = "err5") => SleepSeconds(tpc'[t]) = 5
          /\ SleepBegins(t) => tpc[t] \in {"claim", "commit"}
          /\ (SleepBegins(t) /\ tpc'[t] = "sleep1") => (tpc[t] = "commit" /\ Batch(t) # {})
          /\ (SleepBegins(t) /\ tpc'[t] = "idle5") => (tpc[t] = "claim" /\ Batch(t) = {})
          /\ (InSleep(t) /\ tpc'[t] # tpc[t]) => tpc'[t] \in {"top", "cancelled"}
          /\ (tpc[t] # "top" /\ tpc'[t] = "top") => InSleep(t)
          /\ (tpc[t] # "claim" /\ tpc'[t] = "claim") => tpc[t] \in {"new", "top"}]_vars

\* C27 witness: the loop is in its 1 s sleep after a committed batch, an
\* earlier cycle of the same loop having failed at its commit.
C27_Witness ==
    /\ task = 1
    /\ running
    /\ tpc[1] = "sleep1"
    /\ rolledBack # {}
    /\ \E i \in Items : store[i] \in Terminal

\* the cycle of loop task t is over, or has not got to its dispatch
CycleEnded(t) == tpc[t] \notin {"claimed", "gather", "commit"}

\* C28: no item is processing in the store, and an item that is processing
\* in a session is in the batch in flight of the running loop task, which is
\* awaiting its analyses; once the cycle has ended - by its commit, by the
\* failure of its commit or by the cancellation of stop() - no item of it is
\* processing.
C28_NoStuckProcessing ==
    /\ \A i \in Items : store[i] # "processing"
    /\ \A t \in Tasks, i \in Items :
         sess[t][i] = "processing" =>
            /\ t = task
            /\ running
            /\ tpc[t] = "gather"
            /\ apc[t][i] \in {"ready", "running"}
    /\ \A t \in Tasks : CycleEnded(t) => Batch(t) = {}

\* C28 witness: stop() has cancelled a loop task whose batch was in flight,
\* the task has ended and the items of that batch are pending in the store;
\* another item was committed before.
C28_Witness ==
    /\ tpc[1] = "done"
    /\ ~running
    /\ \E i \in rolledBack : store[i] = "pending"
    /\ \E i \in Items : store[i] \in Terminal

\* the items loaded with the scripted item in the session of loop task t
Siblings(t) == Batch(t) \ {ScriptedItem}

\* C30: an item whose every analyzer response is malformed is never failed,
\* neither in a session nor in the store; its analysis ends with the
\* fallback, which sets it completed with the fallback as its result, and it
\* is stored completed with that one result. Its siblings all resolve before
\* the commit, each by the end of its own analysis, and the step in which
\* the item resolves changes nothing of them.
C30_MalformedItemCompletes ==
    /\ [](AllAnswers("malformed") =>
            /\ store[ScriptedItem] \in {"pending", "completed"}
            /\ store[ScriptedItem] = "completed" => insights[ScriptedItem] = <<"fallback">>
            /\ store[ScriptedItem] = "pending" => insights[ScriptedItem] = <<>>
            /\ \A t \in Tasks :
                 /\ sess[t][ScriptedItem] # "failed"
                 /\ apc[t][ScriptedItem] = "done" =>
                       /\ ares[t][ScriptedItem] = "fallback"
                       /\ sess[t][ScriptedItem] = "completed"
                       /\ added[t][ScriptedItem] = "fallback"
                 /\ \A j \in Siblings(t) :
                       apc[t][j] = "done" =>
                          sess[t][j] = (IF ares[t][j] \in {"ok", "fallback"}
                                        THEN "completed" ELSE "failed")
                 /\ tpc[t] = "commit" => \A j \in Batch(t) : apc[t][j] = "done")
    /\ [][AllAnswers("malformed") =>
            \A t \in Tasks :
                (apc[t][ScriptedItem] = "running" /\ apc'[t][ScriptedItem] # "running"
                     /\ tpc'[t] = "gather") =>
                    \A j \in Siblings(t) :
                        /\ sess'[t][j] = sess[t][j]
                        /\ apc'[t][j] = apc[t][j]
                        /\ ares'[t][j] = ares[t][j]
                        /\ added'[t][j] = added[t][j]]_vars

\* C30 witness: the item answered malformed three times is stored completed
\* with the fallback as its one result, and a sibling is stored failed.
C30_Witness ==
    /\ AllAnswers("malformed")
    /\ store[ScriptedItem] = "completed"
    /\ insights[ScriptedItem] = <<"fallback">>
    /\ \E j \in Items : store[j] = "failed"
    /\ \E j \in Items : store[j] = "completed" /\ insights[j] = <<"ok">>

\* C31: for a response that parses as a JSON object the call returns, from
\* that one parse, the sentiment score and the confidence of the response
\* and its clusters; a missing confidence is returned as 0.5 and missing
\* clusters as the empty list; the fallback is not returned.
C31_WellFormedNormalised ==
    (returned # <<>> /\ analysis.wellformed) =>
        /\ analysis.sentiment_score # <<>> =>
              returned[1].sentiment_score = analysis.sentiment_score[1]
        /\ analysis.confidence # <<>> => returned[1].confidence = analysis.confidence[1]
        /\ analysis.confidence = <<>> => returned[1].confidence = 5
        /\ analysis.clusters # <<>> => returned[1].clusters = analysis.clusters[1]
        /\ analysis.clusters = <<>> => returned[1].clusters = <<>>
        /\ returned[1] # FallbackResult

\* C31 witness: a response with a sentiment score of -1.0 and neither
\* confidence nor clusters has been returned.
C31_Witness ==
    /\ analysis.wellformed
    /\ analysis.sentiment_score = <<-Tenth>>
    /\ analysis.confidence = <<>>
    /\ analysis.clusters = <<>>
    /\ returned # <<>>
    /\ returned[1].sentiment_score = -Tenth
\* ------------------------------------------------------------------ C33
\* a step of the inbound gate: an acquire() or a get_retry_after()
InboundStep == gateCalls' # gateCalls
\* a step of a call of analyze_conversation
OutboundStep == calls' # calls
\* the step is an acquire() that is rejected / a call that starts to wait
RejectStep == SumOver(rejectedAt', Times) > SumOver(rejectedAt, Times)
WaitStep ==
    \E r \in BagToSet(calls') :
        r.pc = "gatewait" /\ CopiesIn(r, calls') > CopiesIn(r, calls)
\* the step is an acquire() / the entry of a call into the outbound gate
AcquireStep ==
    SumOver(admittedAt', Times) + SumOver(rejectedAt', Times)
        > SumOver(admittedAt, Times) + SumOver(rejectedAt, Times)
EntryStep ==
    \E r \in BagToSet(calls) :
        r.pc = "sem" /\ CopiesIn(r, calls') < CopiesIn(r, calls)

\* C33: the two gates share no state. A step of the inbound gate leaves the
\* outbound gate's call times, semaphore and calls as they are; a step of
\* analyze_conversation leaves the inbound gate's timestamps and counts as
\* they are; an acquire() is rejected exactly when the inbound gate itself
\* holds max_requests timestamps of the last second, and a call waits
\* exactly when the outbound gate itself has recorded GateLimit calls in the
\* last second - whatever the state of the other gate.
C33_GatesIndependent ==
    [][/\ InboundStep =>
            UNCHANGED <<last_call_times, grok_semaphore, calls, postsAt>>
       /\ OutboundStep =>
            UNCHANGED <<requests, lock, gateCalls, admittedAt, rejectedAt, retry>>
       /\ AcquireStep => (RejectStep <=> Len(PurgeOld(requests, clock)) >= max_requests)
       /\ EntryStep =>
            (WaitStep <=> /\ Len(FilterRecent(last_call_times, clock)) >= GateLimit
                          /\ WaitTime(FilterRecent(last_call_times, clock), clock) > 0)
      ]_vars

\* C33 witness: at one instant the inbound gate is full and has rejected a
\* submission while a call has passed the outbound gate without waiting, and
\* the outbound gate is full and makes a call wait while the inbound gate has
\* admitted submissions
C33_Witness ==
    /\ rejectedAt[clock] > 0
    /\ admittedAt[clock] = max_requests
    /\ postsAt[clock] > 0
    /\ last_call_times # <<>>
    /\ last_call_times[Len(last_call_times)] = clock
    /\ Len(FilterRecent(last_call_times, clock)) >= GateLimit
    /\ \E r \in Calls : r.pc = "gatewait"
    /\ clock > 0
\* ------------------------------------------------------------------ C34
\* the call has returned normally: it has ended without propagating a
\* failure or a cancellation
ReturnedNormally(r) == r.pc = "done" /\ r.cres \notin {"raised", "cancelled"}

\* C34: a call of analyze_conversation that returns normally returns a result
\* holding sentiment_score, clusters, confidence and reasoning - the
\* normalised response or the fallback - whatever its attempts received,
\* three rate-limit signals included; it never returns without a result.
C34_ReturnsResult ==
    \A r \in Calls : ReturnedNormally(r) => r.cres \in {"ok", "fallback"}
\* ------------------------------------------------------------------ C35
\* the call has made its third attempt and that attempt was answered with o
ThirdAttemptEnded(o) == TotalPosts = max_retries /\ script[max_retries][1] = o

\* C35: a call of analyze_conversation that has ended has returned the
\* degraded fallback exactly when its third attempt ended in a
\* structural-parse failure, whatever the failure classes of the first two
\* attempts; a third attempt that fails transiently propagates the failure.
C35_FallbackIffThirdMalformed ==
    \A r \in Calls :
        r.pc = "done" =>
            /\ r.cres = "fallback" <=> ThirdAttemptEnded("malformed")
            /\ ThirdAttemptEnded("transient") => r.cres = "raised"

\* C35 witness: two transient failures and then a malformed payload have
\* ended in the fallback.
C35_Witness ==
    /\ script[1][1] = "transient"
    /\ script[2][1] = "transient"
    /\ ThirdAttemptEnded("malformed")
    /\ \E r \in Calls : r.pc = "done" /\ r.cres = "fallback"
    /\ clock = 3 * TicksPerSec

\* the failure propagates after two malformed payloads and a transient failure
C35_MixedPropagates ==
    /\ script[1][1] = "malformed"
    /\ script[2][1] = "malformed"
    /\ ThirdAttemptEnded("transient")
    /\ \E r \in Calls : r.pc = "done" /\ r.cres = "raised"
\* ------------------------------------------------------------------ C36
\* the failure classes a final attempt may end in, for this property
FinalFailures == {"malformed", "transient", "rate_limit"}

\* C36: a call of analyze_conversation whose third attempt has failed - with
\* a structural-parse failure, a transient failure or a rate-limit signal -
\* ends without any further wait: it has ended at the instant of its third
\* external call, and it is never asleep after that attempt.
C36_NoWaitAfterFinalAttempt ==
    \A r \in Calls :
        /\ (r.pc = "done" /\ TotalPosts = max_retries /\ r.cfail \in FinalFailures)
               => clock = LastPost
        /\ (r.pc = "backoff" /\ r.cfail \in FinalFailures)
               => r.attempt < max_retries - 1
\* ------------------------------------------------------------------ C37
\* the loop tasks that are active
ActiveLoops == {t \in Tasks : Live(t)}
\* a loop task that has been cancelled or has ended
Ended(t) == tpc[t] \in {"cancelled", "done"}

\* C37: whatever the order of the start() and stop() calls, at most one
\* _process_loop is active; start() while running creates no loop task; and
\* a loop task that stop() has cancelled claims nothing, changes no status
\* and commits nothing from then on, even when start() is called again
\* before stop() has returned: every change of the store is the commit of
\* an active loop.
C37_AtMostOneLoop ==
    /\ [](Cardinality(ActiveLoops) <= 1)
    /\ [][/\ running => task' = task /\ ActiveLoops' \subseteq ActiveLoops
          /\ \A t \in Tasks :
                Ended(t) =>
                   /\ Ended(t)'
                   /\ sess'[t] = sess[t] /\ added'[t] = added[t]
                   /\ ares'[t] = ares[t] /\ apc'[t] = apc[t]
                   /\ ncommit'[t] = ncommit[t]
          /\ (store' # store \/ insights' # insights) =>
                \E t \in ActiveLoops : ncommit'[t] = ncommit[t] + 1
         ]_vars

\* C37 witness: stop() has cancelled the first loop in the middle of a batch
\* and has not returned yet; start() has been called again and the second
\* loop, the only active one, has claimed a batch.
C37_Witness ==
    /\ 1 \in stopWait
    /\ tpc[1] = "cancelled"
    /\ rolledBack # {}
    /\ task = 2
    /\ ActiveLoops = {2}
    /\ Batch(2) # {}
    /\ \E i \in Items : store[i] \in Terminal
\* ------------------------------------------------------------------ C38
\* a step in which the store fails: the query or the commit raises
StoreFails == \E t \in Tasks : ClaimFail(t) \/ CommitFail(t)

\* C38: when the scheduler is started and never stopped, every external call
\* responds or times out, no item is submitted and, from some point on, the
\* store no longer fails, every item - all are pending at the start - is
\* eventually completed or failed in the store.
C38_PendingEventuallyTerminal ==
    <>[][~StoreFails]_vars => \A i \in Items : <>(store[i] \in Terminal)

\* C38 witness: after a failed commit and a failed query, later cycles have
\* taken every item to completed or failed.
C38_Witness ==
    /\ \A i \in Items : store[i] \in Terminal
    /\ \E i \in Items : store[i] = "failed"
    /\ \E i \in Items : store[i] = "completed"
    /\ rolledBack # {}
    /\ running
\* ------------------------------------------------------------------ C39
\* the step is the failed commit of the batch of loop task t
CommitFailStep(t) ==
    /\ tpc[t] = "commit"
    /\ tpc'[t] = OnCycleFailure
    /\ ncommit'[t] = ncommit[t] + 1
\* item i is in the session of a loop task
Claimed(i) == \E t \in Tasks : sess[t][i] # "none"

\* C39: a failed commit persists nothing of its batch: the step leaves the
\* statuses and the Analysis Results of the store as they were, the items
\* of the batch are pending in the store and in no session, so that the
\* claim query selects them again; and, once the store no longer fails, a
\* later cycle claims every item of the failed batch again.
C39_FailedCommitLosesNothing ==
    /\ [][\A t \in Tasks :
            CommitFailStep(t) =>
               /\ store' = store
               /\ insights' = insights
               /\ \A i \in Batch(t) :
                     /\ store'[i] = "pending"
                     /\ insights'[i] = <<>>
                     /\ ~Claimed(i)'
                     /\ Claimable(i)'
                     /\ i \in rolledBack'
         ]_vars
    /\ <>[][~StoreFails]_vars =>
          \A i \in Items :
              (i \in rolledBack /\ store[i] = "pending" /\ ~Claimed(i)) ~> Claimed(i)

\* C39 witness: an item of a batch whose commit failed has been claimed
\* again and analysed in a later cycle, while the store still has it pending
\* and without a result.
C39_Witness ==
    \E i \in rolledBack, t \in Tasks :
        /\ sess[t][i] = "completed"
        /\ added[t][i] # "none"
        /\ store[i] = "pending"
        /\ insights[i] = <<>>
        /\ tpc[t] = "commit"

====
